---------------------------- MODULE Spec2Model ----------------------------
(***************************************************************************)
(* The conversation view of AtomiaBot                                      *)
(* (src/Frontend/src/assets/pages/AtomiaBot/Bot.jsx, component Bot).       *)
(*                                                                         *)
(* The component's React state (messages, subject, input, sessionId,       *)
(* loading) is the state of the machine.  Every event handler is one       *)
(* action: React runs a handler to completion and re-renders before the    *)
(* next discrete event, so a handler reads the state of the latest render. *)
(* sendMessage is asynchronous: the part before the await is one step, and *)
(* the continuation of each request (try / catch / finally) is a later     *)
(* step, taken when the network settles that request.  The requests that   *)
(* have been posted and not yet settled are the set pending.               *)
(*                                                                         *)
(* Text is a sequence of one-character strings, so that String.trim is     *)
(* computed and not assumed.                                               *)
(***************************************************************************)
EXTENDS Naturals, Sequences, FiniteSets, TLC

VARIABLES
    messages,   \* useState([])        Bot.jsx:6   the transcript
    subject,    \* useState("Physics") Bot.jsx:7
    input,      \* useState("")        Bot.jsx:8
    sessionId,  \* useState(null)      Bot.jsx:9
    loading,    \* useState(false)     Bot.jsx:10  the busy flag
    pending,    \* requests posted by axios.post (Bot.jsx:28) and not settled
    last,       \* history: the step taken last: "send" and "ignored" (a call
                \* of sendMessage), "ui" (any other handler), "resolve", "reject"
    lastGoodId, \* history: session_id of the latest well-formed 2xx reply
    firstId     \* history: session_id of the first well-formed 2xx reply

vars ==
    <<messages, subject, input, sessionId, loading, pending, last, lastGoodId, firstId>>

\* The history variables.
history == <<lastGoodId, firstId>>

\* The component's own state, without the history variables.
state == <<messages, subject, input, sessionId, loading, pending>>

-----------------------------------------------------------------------------
(* Bounds of the model *)

\* Number of messages the user submits in one page load.
MaxSends == 2

-----------------------------------------------------------------------------
(* Values *)

\* JavaScript null (the initial sessionId) and undefined (a missing field).
Null == "null"
Undefined == "undefined"

\* The text of a record built from a missing text_response.
UndefinedText == <<"undefined">>

\* Characters String.prototype.trim removes.
Whitespace == {" "}

\* Values the input field takes (e.target.value): empty, whitespace only,
\* plain text, and text with whitespace at both ends.
Inputs == {<<>>, <<" ">>, <<"a">>, <<" ", "a", " ">>}

\* const subjects = [...]
subjects == {"Physics", "Chemistry", "Mathematics", "Biology"}

\* Identifiers and reply texts the server can return.
SessionIds == {"s1", "s2"}
Replies == {<<"y">>}

\* Body of a 2xx reply as axios hands it over (response.data).  isNull: the
\* body is JSON null.  A field the body lacks reads as undefined; a body
\* that is a string or a number (unparsed or primitive JSON) reads as an
\* object lacking both fields.
Bodies ==
    [isNull : {FALSE},
     session_id : SessionIds \cup {Undefined},
     text_response : Replies \cup {UndefinedText}]
    \cup {[isNull |-> TRUE, session_id |-> Undefined, text_response |-> UndefinedText]}

\* The bodies the wire contract promises: both fields present.
WellFormed(data) ==
    /\ ~data.isNull
    /\ data.session_id \in SessionIds
    /\ data.text_response \in Replies

WellFormedBodies == {data \in Bodies : WellFormed(data)}
MalformedBodies == {data \in Bodies : ~WellFormed(data)}

-----------------------------------------------------------------------------
(* Pure helpers *)

RECURSIVE TrimStart(_)
TrimStart(s) ==
    IF s # <<>> /\ Head(s) \in Whitespace THEN TrimStart(Tail(s)) ELSE s

RECURSIVE TrimEnd(_)
TrimEnd(s) ==
    IF s # <<>> /\ s[Len(s)] \in Whitespace
    THEN TrimEnd(SubSeq(s, 1, Len(s) - 1))
    ELSE s

\* A guard that tests the input without trimming it.
TrimNothing(s) == s

\* input.trim()
Trim(s) == TrimEnd(TrimStart(s))

\* const userMsg = { role: "user", text: input }
UserMsg(text) == [role |-> "user", text |-> text]

\* const botMsg = { role: "assistant", text: data.text_response }
BotMsg(data) == [role |-> "assistant", text |-> data.text_response]

\* The fixed text of the catch block.
FallbackText == <<"fallback">>

\* The record the catch block appends.
FallbackMsg == [role |-> "assistant", text |-> FallbackText]

\* Number of user records of a transcript.
UserCount(ms) == Cardinality({i \in 1..Len(ms) : ms[i].role = "user"})

-----------------------------------------------------------------------------
Init ==
    /\ messages = <<>>
    /\ subject = "Physics"
    /\ input = <<>>
    /\ sessionId = Null
    /\ loading = FALSE
    /\ pending = {}
    /\ last = "init"
    /\ lastGoodId = Null
    /\ firstId = Null


-----------------------------------------------------------------------------
(* sendMessage, up to the await *)

\* A request whose message is the trimmed input.
RequestTrimmed ==
    [session_id |-> sessionId,
     message |-> Trim(input),
     subject |-> subject,
     before |-> messages,
     alone |-> pending = {},
     expected |-> lastGoodId]

\* The request axios.post sends: the payload, read from the render the handler
\* belongs to, and three history fields: the transcript before the submit,
\* whether the exchange has run without another one in flight, and the
\* identifier of the latest well-formed reply at the submit.
Request ==
    [session_id |-> sessionId,
     message |-> input,
     subject |-> subject,
     before |-> messages,
     alone |-> pending = {},
     expected |-> lastGoodId]

\* The early return of sendMessage: if (!input.trim()) return;
Ignored == Trim(input) = <<>>

\* A submit that leaves the typed text in the input field.
SubmitKeepingInput ==
    /\ messages' = Append(messages, UserMsg(input))
    /\ input' = input
    /\ loading' = TRUE
    /\ pending' = {[r EXCEPT !.alone = FALSE] : r \in pending} \cup {Request}

\* setMessages(prev => [...prev, userMsg]); setInput(""); setLoading(true);
\* axios.post(...)
Submit ==
    /\ messages' = Append(messages, UserMsg(input))
    /\ input' = <<>>
    /\ loading' = TRUE
    /\ pending' = {[r EXCEPT !.alone = FALSE] : r \in pending} \cup {Request}

sendMessage ==
    IF Ignored
    THEN /\ UNCHANGED state
         /\ last' = "ignored"
         /\ UNCHANGED history
    ELSE /\ Submit
         /\ last' = "send"
         /\ UNCHANGED <<subject, sessionId>>
         /\ UNCHANGED history

\* The user submits at most MaxSends messages.
WithinBounds == Ignored \/ UserCount(messages) < MaxSends

-----------------------------------------------------------------------------
(* Event handlers *)

\* Keys of a keydown event: Enter, and any other key.
Keys == {"Enter", "a"}

\* <button onClick={sendMessage} disabled={loading}>: a disabled button
\* fires no click.
ClickSend ==
    /\ ~loading
    /\ WithinBounds
    /\ sendMessage

\* handleKeyDown: if (e.key === "Enter") sendMessage();
handleKeyDown(key) ==
    /\ WithinBounds
    /\ IF key = "Enter"
       THEN sendMessage
       ELSE /\ UNCHANGED state
            /\ last' = "ui"
            /\ UNCHANGED history

\* onChange={(e) => setInput(e.target.value)}
OnChange(value) ==
    /\ input' = value
    /\ last' = "ui"
    /\ UNCHANGED <<messages, subject, sessionId, loading, pending>>
    /\ UNCHANGED history

\* A subject button that also empties the input field.
SelectSubjectClearingInput(sub) ==
    /\ subject' = sub
    /\ input' = <<>>
    /\ last' = "ui"
    /\ UNCHANGED <<messages, sessionId, loading, pending>>
    /\ UNCHANGED history

\* onClick={() => setSubject(sub)}
SelectSubject(sub) ==
    /\ subject' = sub
    /\ last' = "ui"
    /\ UNCHANGED <<messages, input, sessionId, loading, pending>>
    /\ UNCHANGED history

-----------------------------------------------------------------------------
(* sendMessage, after the await: one continuation per request *)

\* A success branch that keeps an identifier once it has one.
OnSuccessKeepingFirst(data) ==
    /\ sessionId' = IF sessionId = Null THEN data.session_id ELSE sessionId
    /\ messages' = Append(messages, BotMsg(data))

\* A catch block that also forgets the session.
OnErrorResettingSession ==
    /\ messages' = Append(messages, FallbackMsg)
    /\ sessionId' = Null

\* A catch block that takes the failed user message back out.
OnErrorRollingBack ==
    /\ messages' = Append(SubSeq(messages, 1, Len(messages) - 1), FallbackMsg)
    /\ UNCHANGED sessionId

\* A catch block that appends the fallback record twice.
OnErrorAppendingTwice ==
    /\ messages' = Append(Append(messages, FallbackMsg), FallbackMsg)
    /\ UNCHANGED sessionId

\* A catch block that appends nothing.
OnErrorSilent ==
    /\ UNCHANGED messages
    /\ UNCHANGED sessionId

\* A finally block that leaves the busy flag as it is.
FinallyStayingBusy == loading' = loading

\* try: setSessionId(data.session_id); setMessages(prev => [...prev, botMsg])
OnSuccess(data) ==
    /\ sessionId' = data.session_id
    /\ messages' = Append(messages, BotMsg(data))

\* catch: setMessages(prev => [...prev, fallback]); sessionId is not touched
OnError ==
    /\ messages' = Append(messages, FallbackMsg)
    /\ UNCHANGED sessionId

\* finally: setLoading(false)
Finally == loading' = FALSE

\* A continuation that puts the reply right after the user record of its own
\* request instead of at the end of the transcript.
ResolveInSubmitOrder(r, data) ==
    /\ r \in pending
    /\ messages' =
           SubSeq(messages, 1, Len(r.before) + 1)
           \o << IF data.isNull THEN FallbackMsg ELSE BotMsg(data) >>
           \o SubSeq(messages, Len(r.before) + 2, Len(messages))
    /\ sessionId' = IF data.isNull THEN sessionId ELSE data.session_id
    /\ Finally
    /\ pending' = pending \ {r}
    /\ last' = "resolve"
    /\ lastGoodId' = IF WellFormed(data) THEN data.session_id ELSE lastGoodId
    /\ firstId' = IF WellFormed(data) /\ firstId = Null THEN data.session_id ELSE firstId
    /\ UNCHANGED <<subject, input>>

\* A continuation that empties the input field when the reply arrives.
ResolveClearingInput(r, data) ==
    /\ r \in pending
    /\ IF data.isNull THEN OnError ELSE OnSuccess(data)
    /\ Finally
    /\ pending' = pending \ {r}
    /\ last' = "resolve"
    /\ lastGoodId' = IF WellFormed(data) THEN data.session_id ELSE lastGoodId
    /\ firstId' = IF WellFormed(data) /\ firstId = Null THEN data.session_id ELSE firstId
    /\ input' = <<>>
    /\ UNCHANGED subject

\* The request r resolves with a 2xx status and the body data.  Reading
\* data.session_id of a null body throws a TypeError, which the catch block
\* handles; any other body passes through the try block.
Resolve(r, data) ==
    /\ r \in pending
    /\ IF data.isNull THEN OnError ELSE OnSuccess(data)
    /\ Finally
    /\ pending' = pending \ {r}
    /\ last' = "resolve"
    /\ lastGoodId' = IF WellFormed(data) THEN data.session_id ELSE lastGoodId
    /\ firstId' = IF WellFormed(data) /\ firstId = Null THEN data.session_id ELSE firstId
    /\ UNCHANGED <<subject, input>>

\* The request r fails: a network error or a status outside 2xx makes
\* axios.post reject.
Reject(r) ==
    /\ r \in pending
    /\ OnError
    /\ Finally
    /\ pending' = pending \ {r}
    /\ last' = "reject"
    /\ UNCHANGED <<subject, input>>
    /\ UNCHANGED history

-----------------------------------------------------------------------------
Next ==
    \/ ClickSend
    \/ \E key \in Keys : handleKeyDown(key)
    \/ \E value \in Inputs : OnChange(value)
    \/ \E sub \in subjects : SelectSubject(sub)
    \/ \E r \in pending : \E data \in WellFormedBodies : Resolve(r, data)
    \/ \E r \in pending : \E data \in MalformedBodies : Resolve(r, data)
    \/ \E r \in pending : Reject(r)

Spec == Init /\ [][Next]_vars

\* Some pending request settles: axios.post resolves or rejects.
Settle ==
    \E r \in pending : Reject(r) \/ \E data \in Bodies : Resolve(r, data)

\* The network settles every request it was given: a continuation that can
\* run (a pending request) is eventually run by the event loop.
FairSpec == Spec /\ WF_vars(Settle)

-----------------------------------------------------------------------------
(* Properties *)

\* s is empty or holds whitespace only.
IsBlank(s) == \A i \in 1..Len(s) : s[i] \in Whitespace

\* s is a prefix of t.
IsPrefix(s, t) == Len(s) <= Len(t) /\ SubSeq(t, 1, Len(s)) = s

\* A step that calls sendMessage: a click on the send control, or Enter.
SendStep == ClickSend \/ handleKeyDown("Enter")

\* C1: in every reachable state at most one exchange is in flight: no
\* sequence of clicks, Enter presses, typing, subject selections and network
\* events starts a second request while an earlier one is unsettled.
C1_AtMostOneInFlight == Cardinality(pending) <= 1

\* C2: in every reachable state the busy flag is true if and only if an
\* exchange is in flight (a request has been issued and is not settled).
C2_BusyIffInFlight == loading <=> (pending # {})

\* C3: a call of sendMessage with an input that is empty or whitespace only
\* changes nothing: transcript, input, session identifier, busy flag and
\* subject keep their values and no request is issued.
C3_BlankSubmitIsNoOp ==
    [][(IsBlank(input) /\ SendStep) => UNCHANGED state]_vars

\* sendMessage has just returned early on a whitespace-only input, with an
\* earlier exchange in the transcript.
C3_Witness ==
    /\ last = "ignored"
    /\ input = <<" ">>
    /\ messages # <<>>

\* C4: a call of sendMessage with a non-blank input X appends {user, X},
\* clears the input and sets busy before the request settles: while the
\* request is pending the transcript holds the appended record right after
\* the transcript of before the submit, and right after the submit the input
\* is empty and busy is true.
C4_UserRecordBeforeReply ==
    /\ \A r \in pending :
        /\ ~IsBlank(r.message)
        /\ IsPrefix(Append(r.before, [role |-> "user", text |-> r.message]), messages)
    /\ last = "send" => (input = <<>> /\ loading)

\* A text with whitespace around it has just been submitted and its request
\* is pending.
C4_Witness ==
    /\ last = "send"
    /\ \E r \in pending :
        /\ r.message = <<" ", "a", " ">>
        /\ messages = Append(r.before, [role |-> "user", text |-> r.message])

\* C5: when the request of an exchange started by submitting X resolves with
\* a well-formed {session_id: S, text_response: Y} and no other exchange
\* overlapped it, the transcript is the transcript of before the submit
\* followed by exactly {user, X} and {assistant, Y}, the stored identifier is
\* S and busy is false.
C5_SuccessfulExchange ==
    [][\A r \in pending : \A data \in WellFormedBodies :
          (r.alone /\ Resolve(r, data)) =>
              /\ messages' = r.before \o
                     << [role |-> "user", text |-> r.message],
                        [role |-> "assistant", text |-> data.text_response] >>
              /\ sessionId' = data.session_id
              /\ loading' = FALSE]_vars

\* A second exchange, not overlapping the first, has just resolved with a
\* well-formed reply.
C5_Witness ==
    /\ last = "resolve"
    /\ pending = {}
    /\ Len(messages) = 4
    /\ messages[2].role = "assistant"
    /\ messages[3].role = "user"
    /\ messages[4] = [role |-> "assistant", text |-> <<"y">>]
    /\ sessionId = lastGoodId
    /\ sessionId \in SessionIds

\* C6: when the request of an exchange started by submitting X fails (network
\* error or status outside 2xx), exactly one fallback record is appended
\* after {user, X}, {user, X} stays in the transcript, the stored identifier
\* has the value it had before the submit, and busy is false.
C6_FailedExchange ==
    [][\A r \in pending :
          Reject(r) =>
              /\ messages' = Append(messages, FallbackMsg)
              /\ IsPrefix(Append(r.before, [role |-> "user", text |-> r.message]), messages')
              /\ sessionId' = r.session_id
              /\ loading' = FALSE]_vars

\* C7: a 2xx reply whose body lacks session_id or text_response, or is no
\* object, is handled like a network failure: the fallback record is
\* appended, no record with an undefined text is appended, and the stored
\* identifier is left unchanged.
C7_MalformedIsFailure ==
    [][\A r \in pending : \A data \in MalformedBodies :
          Resolve(r, data) =>
              /\ messages' = Append(messages, FallbackMsg)
              /\ sessionId' = sessionId]_vars

\* C8: the first request carries session_id null, and every later request
\* carries the identifier returned by the latest successful (well-formed)
\* reply at its submit; failed exchanges in between do not change the
\* identifier that is sent.
C8_SessionContinuity ==
    \A r \in pending : r.session_id = r.expected

\* C9 as claimed, taken where the spec means it (one exchange at a time,
\* replies that carry both fields): once the stored identifier has been
\* assigned from the first successful reply it never changes again, so a
\* later successful exchange leaves it at that first value.
C9_NeverChangesOnceAssigned ==
    [][\A r \in pending : \A data \in WellFormedBodies :
          (r.alone /\ firstId # Null /\ Resolve(r, data)) =>
              /\ sessionId = firstId
              /\ sessionId' = firstId]_vars

\* C9 as amended: the stored identifier changes only in the step that handles
\* a 2xx reply with a body other than null, where it becomes the session_id
\* field of that body; no other step (a submit, a failed request, typing, a
\* subject selection) changes it.
C9_ChangesOnlyByReply ==
    [][sessionId' # sessionId =>
          \E r \in pending : \E data \in Bodies :
              /\ Resolve(r, data)
              /\ ~data.isNull
              /\ sessionId' = data.session_id]_vars

\* The stored identifier was assigned by a first well-formed reply and has
\* since been replaced by the identifier of a later well-formed reply.
C9_Witness ==
    /\ firstId \in SessionIds
    /\ sessionId \in SessionIds
    /\ sessionId = lastGoodId
    /\ sessionId # firstId

\* C10: the transcript is append-only: in every step the transcript before
\* the step is a prefix of the transcript after it.
C10_AppendOnly ==
    [][IsPrefix(messages, messages')]_vars

\* Two exchanges, one of them failed, have left four records.
C10_Witness ==
    /\ Len(messages) = 4
    /\ \E i \in 1..4 : messages[i] = FallbackMsg
    /\ pending = {}

\* Number of assistant records of a transcript.
AssistantCount(ms) == Cardinality({i \in 1..Len(ms) : ms[i].role = "assistant"})

\* C11: every assistant record is preceded by its own user record: each
\* prefix of the transcript holds at least as many user records as assistant
\* records (an exchange adds one user record and at most one assistant record).
C11_UserBeforeAssistant ==
    \A k \in 0..Len(messages) :
        AssistantCount(SubSeq(messages, 1, k)) <= UserCount(SubSeq(messages, 1, k))

\* Two exchanges have each left a user record followed by an assistant record.
C11_Witness ==
    /\ Len(messages) = 4
    /\ messages[1].role = "user"
    /\ messages[2].role = "assistant"
    /\ messages[3].role = "user"
    /\ messages[4].role = "assistant"

\* C12: a step that selects another subject changes only the subject:
\* transcript, input, identifier, busy flag and the requests in flight (with
\* the subject they were submitted with) are unchanged; and the request a
\* later submit posts carries the subject selected at that submit.
C12_SubjectSelection ==
    [][/\ subject' # subject =>
            UNCHANGED <<messages, input, sessionId, loading, pending>>
       /\ \A q \in pending' :
            (q.before = messages /\ Len(messages') > Len(messages)) =>
                q.subject = subject]_vars

\* A request submitted under Chemistry is in flight while Biology is selected.
C12_Witness ==
    /\ subject = "Biology"
    /\ \E r \in pending : r.subject = "Chemistry"

\* C13: a request that settles leaves busy false, and, provided every issued
\* request eventually settles, every state with busy true is followed by a
\* state with busy false.
C13_BusyEventuallyCleared ==
    /\ [](last \in {"resolve", "reject"} => ~loading)
    /\ (loading ~> ~loading)

\* A request has just failed and busy is false again.
C13_Witness ==
    /\ last = "reject"
    /\ ~loading
    /\ messages # <<>>

\* C14: while an issued request stays unsettled busy stays true: no step
\* (typing, subject selection, Enter, another request settling) that leaves
\* the request pending sets busy to false.
C14_BusyWhilePending ==
    [][(loading /\ \E r \in pending : \E q \in pending' : q.before = r.before)
          => loading']_vars

\* C15: when two exchanges overlap, the assistant records are appended in
\* the order in which the replies arrive, not in submit order: the record of
\* a settling request (one that leaves the pending set) goes to the end of
\* the transcript wherever its own user record is, so [user X1, user X2,
\* reply to X2, reply to X1] is reached.
C15_ArrivalOrder ==
    [][(\E r \in pending : \A q \in pending' : q.before # r.before) =>
          /\ Len(messages') = Len(messages) + 1
          /\ SubSeq(messages', 1, Len(messages)) = messages
          /\ messages'[Len(messages')].role = "assistant"]_vars

\* The reply to the second submit X2 is in the transcript while the request
\* of the first submit X1 is still pending.
C15_Witness ==
    /\ last = "resolve"
    /\ messages = << [role |-> "user", text |-> <<"a">>],
                     [role |-> "user", text |-> <<" ", "a", " ">>],
                     [role |-> "assistant", text |-> <<"y">>] >>
    /\ \E r \in pending : pending = {r} /\ r.before = <<>> /\ r.message = <<"a">>

\* C16: the message field of each request is the text of the user record
\* appended by the same submit (the input as typed, untrimmed), and its
\* session_id and subject are the stored identifier and the selected subject
\* at that submit.
C16_RequestPayload ==
    /\ \A r \in pending :
        /\ Len(r.before) < Len(messages)
        /\ messages[Len(r.before) + 1].role = "user"
        /\ messages[Len(r.before) + 1].text = r.message
    /\ last = "send" =>
        \E q \in pending :
            /\ Len(messages) = Len(q.before) + 1
            /\ q.session_id = sessionId
            /\ q.subject = subject

\* An untrimmed text has just been submitted under a subject other than the
\* initial one and with an identifier adopted from an earlier reply.
C16_Witness ==
    /\ last = "send"
    /\ subject = "Mathematics"
    /\ sessionId = "s2"
    /\ \E r \in pending :
        /\ r.message = <<" ", "a", " ">>
        /\ r.subject = "Mathematics"
        /\ r.session_id = "s2"

\* C17: a request carries the identifier stored at its own submit whatever
\* arrives afterwards: a request submitted before any reply was handled
\* carries null, also the second of two overlapping ones, and when an
\* overlapped request succeeds the stored identifier becomes the one its
\* reply returns, so after both succeed the reply that arrived last decides.
C17_OverlappingSessions ==
    [][/\ \A q \in pending' :
            q.session_id = Null \/ AssistantCount(q.before) > 0
       /\ \A r \in pending :
            (~r.alone /\ \A q \in pending' : q.before # r.before) =>
                \A data \in WellFormedBodies :
                    Resolve(r, data) => sessionId' = data.session_id]_vars

\* Two overlapping exchanges have both succeeded, with different identifiers,
\* and the stored identifier is the later one.
C17_Witness ==
    /\ pending = {}
    /\ Len(messages) = 4
    /\ messages[2].role = "user"
    /\ messages[3].text \in Replies
    /\ messages[4].text \in Replies
    /\ firstId \in SessionIds
    /\ sessionId = lastGoodId
    /\ sessionId # firstId

\* C18: the number of user records equals the number of assistant records
\* plus the number of exchanges in flight.
C18_RecordBalance ==
    UserCount(messages) = AssistantCount(messages) + Cardinality(pending)

\* One exchange is complete and a second one is in flight.
C18_Witness ==
    /\ Cardinality(pending) = 1
    /\ UserCount(messages) = 2
    /\ AssistantCount(messages) = 1

\* C19: a step that appends a reply (a request settling) leaves the input
\* text and the subject unchanged, and a step that empties a non-empty input
\* is a submit (or the user editing the field).
C19_SettleKeepsInput ==
    [][/\ (Len(messages') > Len(messages)
             /\ messages'[Len(messages')].role = "assistant")
          => (input' = input /\ subject' = subject)
       /\ (input # <<>> /\ input' = <<>>)
          => (SendStep \/ \E value \in Inputs : OnChange(value))]_vars

\* Text typed while the exchange was in flight is in the input field after
\* the reply has been appended.
C19_Witness ==
    /\ last = "resolve"
    /\ pending = {}
    /\ input = <<" ", "a", " ">>
    /\ subject = "Chemistry"
    /\ messages[Len(messages)].role = "assistant"

=============================================================================
